---- MODULE Spec2Model ----
(***************************************************************************)
(* Approval / regeneration control loop of the weekly meal planner:        *)
(*   - weekly_meal_planner_flow      (src/src/main.py)                     *)
(*   - parse_slack_response, monitor_slack_thread_for_approval,            *)
(*     resume_prefect_flow, poll_slack_and_resume_flow                     *)
(*                                   (src/src/slack_integration.py)        *)
(*   - the webhook automation's run_input template                         *)
(*                                   (src/scripts/setup_webhook_automation.py) *)
(* The Prefect server (pause / resume of a flow run) and the Slack thread  *)
(* are the environment of that code.                                       *)
(*                                                                         *)
(* A text is a sequence of one-character strings.  The two cross marks and *)
(* two check marks of the source are the symbols "U+2713", "U+2705",       *)
(* "U+2717" and "U+274C".                                                  *)
(***************************************************************************)
EXTENDS Integers, Sequences, FiniteSets, TLC

\* Python's None where a text is expected (no text consists of this symbol)
None == <<"None">>

----------------------------------------------------------------------------
(* Text primitives: str.lower, str.strip, substring test, str.split.       *)

UpperLetters ==
  <<"A","B","C","D","E","F","G","H","I","J","K","L","M",
    "N","O","P","Q","R","S","T","U","V","W","X","Y","Z">>

LowerLetters ==
  <<"a","b","c","d","e","f","g","h","i","j","k","l","m",
    "n","o","p","q","r","s","t","u","v","w","x","y","z">>

LowerChar(c) ==
  IF \E i \in 1..26 : UpperLetters[i] = c
  THEN LowerLetters[CHOOSE i \in 1..26 : UpperLetters[i] = c]
  ELSE c

lower(s) == [i \in 1..Len(s) |-> LowerChar(s[i])]

IsSpace(c) == c \in {" ", "\t", "\n"}

RECURSIVE lstrip(_)
lstrip(s) ==
  IF s = <<>> THEN s
  ELSE IF IsSpace(Head(s)) THEN lstrip(Tail(s)) ELSE s

RECURSIVE rstrip(_)
rstrip(s) ==
  IF s = <<>> THEN s
  ELSE IF IsSpace(s[Len(s)]) THEN rstrip(SubSeq(s, 1, Len(s) - 1)) ELSE s

strip(s) == rstrip(lstrip(s))

StartsWith(s, p) == Len(s) >= Len(p) /\ SubSeq(s, 1, Len(p)) = p

\* positions at which sub occurs in s
Occurrences(s, sub) ==
  { i \in 1..(Len(s) - Len(sub) + 1) : SubSeq(s, i, i + Len(sub) - 1) = sub }

\* Python / Jinja  `sub in s`
Contains(s, sub) == Occurrences(s, sub) # {}

Min(S) == CHOOSE x \in S : \A y \in S : x <= y

\* s.split(sep)[1]: the text between the first and the second occurrence of
\* sep (or the end of s); only used where sep occurs in s
SplitSecond(s, sep) ==
  LET first == Min(Occurrences(s, sep))
      rest  == SubSeq(s, first + Len(sep), Len(s))
  IN  IF Contains(rest, sep)
      THEN SubSeq(rest, 1, Min(Occurrences(rest, sep)) - 1)
      ELSE rest

----------------------------------------------------------------------------
(* Decision Normalizer of the poll channel: parse_slack_response.          *)

ApprovalTokens ==
  { <<"a","p","p","r","o","v","e">>, <<"a","p","p","r","o","v","e","d">>,
    <<"U+2713">>, <<"U+2705">>, <<"y","e","s">>, <<"y">> }

RejectionTokens ==
  { <<"r","e","j","e","c","t">>, <<"r","e","j","e","c","t","e","d">>,
    <<"U+2717">>, <<"U+274C">>, <<"n","o">>, <<"n">> }

FeedbackPrefix == <<"f","e","e","d","b","a","c","k",":">>

\* number of leading whitespace characters of s
RECURSIVE LeadingSpaces(_)
LeadingSpaces(s) ==
  IF s = <<>> \/ ~IsSpace(Head(s)) THEN 0 ELSE 1 + LeadingSpaces(Tail(s))

\* the longest prefix of s without a newline ('.' does not match "\n")
RECURSIVE DotPlus(_)
DotPlus(s) ==
  IF s = <<>> \/ Head(s) = "\n" THEN <<>> ELSE <<Head(s)>> \o DotPlus(Tail(s))

\* re.match(r"feedback:\s*(.+)", s, re.IGNORECASE).group(1), or None when
\* there is no match: \s* is greedy and gives characters back until (.+)
\* can match at least one character
FeedbackMatch(s) ==
  IF ~StartsWith(lower(s), FeedbackPrefix) THEN None
  ELSE LET rest == SubSeq(s, Len(FeedbackPrefix) + 1, Len(s))
           ok   == { j \in 0..LeadingSpaces(rest) :
                       DotPlus(SubSeq(rest, j + 1, Len(rest))) # <<>> }
       IN  IF ok = {} THEN None
           ELSE LET j == CHOOSE x \in ok : \A y \in ok : y <= x
                IN  DotPlus(SubSeq(rest, j + 1, Len(rest)))

\* ApprovalInput(approved, feedback, regenerate)
Decision(a, f, r) == [approved |-> a, feedback |-> f, regenerate |-> r]

\* no ApprovalInput bound yet
NoInput == [approved |-> FALSE, feedback |-> <<"NoInput">>, regenerate |-> FALSE]

\* mutant: the text is compared without lower()
parse_slack_response_case_sensitive(text) ==
  LET text_lower == strip(text)
  IN  IF text_lower \in ApprovalTokens THEN Decision(TRUE, None, FALSE)
      ELSE IF text_lower \in RejectionTokens THEN Decision(FALSE, None, FALSE)
      ELSE IF FeedbackMatch(text_lower) # None
           THEN Decision(FALSE, strip(FeedbackMatch(text_lower)), TRUE)
      ELSE Decision(FALSE, text, TRUE)

\* mutant: the rejection tokens are not recognized
parse_slack_response_no_rejection(text) ==
  LET text_lower == strip(lower(text))
  IN  IF text_lower \in ApprovalTokens THEN Decision(TRUE, None, FALSE)
      ELSE IF FeedbackMatch(text_lower) # None
           THEN Decision(FALSE, strip(FeedbackMatch(text_lower)), TRUE)
      ELSE Decision(FALSE, text, TRUE)

\* mutant: a "feedback:" reply does not ask for a regeneration
parse_slack_response_feedback_no_regenerate(text) ==
  LET text_lower == strip(lower(text))
  IN  IF text_lower \in ApprovalTokens THEN Decision(TRUE, None, FALSE)
      ELSE IF text_lower \in RejectionTokens THEN Decision(FALSE, None, FALSE)
      ELSE IF FeedbackMatch(text_lower) # None
           THEN Decision(FALSE, strip(FeedbackMatch(text_lower)), FALSE)
      ELSE Decision(FALSE, text, TRUE)

\* mutant: the default returns the lowered and stripped text
parse_slack_response_default_lowered(text) ==
  LET text_lower == strip(lower(text))
  IN  IF text_lower \in ApprovalTokens THEN Decision(TRUE, None, FALSE)
      ELSE IF text_lower \in RejectionTokens THEN Decision(FALSE, None, FALSE)
      ELSE IF FeedbackMatch(text_lower) # None
           THEN Decision(FALSE, strip(FeedbackMatch(text_lower)), TRUE)
      ELSE Decision(FALSE, text_lower, TRUE)

parse_slack_response(text) ==
  LET text_lower == strip(lower(text))
  IN  IF text_lower \in ApprovalTokens THEN Decision(TRUE, None, FALSE)
      ELSE IF text_lower \in RejectionTokens THEN Decision(FALSE, None, FALSE)
      ELSE IF FeedbackMatch(text_lower) # None
           THEN Decision(FALSE, strip(FeedbackMatch(text_lower)), TRUE)
      ELSE Decision(FALSE, text, TRUE)

----------------------------------------------------------------------------
(* Decision of the push channel: the run_input template of the automation. *)

ApproveWord == <<"a","p","p","r","o","v","e">>

CheckMark == <<"U+2713">>

webhook_run_input(message_text) ==
  Decision(
    Contains(message_text, ApproveWord) \/ Contains(message_text, CheckMark),
    IF Contains(message_text, FeedbackPrefix)
    THEN strip(SplitSecond(message_text, FeedbackPrefix))
    ELSE None,
    Contains(message_text, FeedbackPrefix))

----------------------------------------------------------------------------
(* Program constants and the bounds of the model.                          *)

\* main.py: max_regeneration_attempts
max_regeneration_attempts == 3

\* main.py: the literal of the loop condition `regeneration_count <= 3`
LoopLimit == 3

\* timeout_seconds and poll_interval_seconds handed to the polling flow,
\* scaled down
PollTimeout == 1
PollInterval == 1

\* replies a human posts during the run, over all threads
MaxReplies == 2

Rounds == 0..(LoopLimit + 1)

\* get_run_context().flow_run.id of the one run modelled
FlowRunId == "flow-run-1"

\* the reply texts the human chooses from: the poll channel reads "y" as an
\* approval and the push channel as a rejection without feedback; both read
\* "feedback: x" as a request to regenerate with feedback "x"
TextApprove == <<"y">>
TextFeedback == <<"f","e","e","d","b","a","c","k",":"," ","x">>

ReplyTexts == { TextApprove, TextFeedback }

----------------------------------------------------------------------------
(* The reply texts the Decision Normalizer is examined on: a core text     *)
(* between leading and trailing whitespace.                                *)

Pads == { <<>>, <<" ">>, <<"\n">>, <<" ","\t">> }

\* approval tokens in several cases
ApprovalCores ==
  { <<"a","p","p","r","o","v","e">>,
    <<"A","P","P","R","O","V","E">>,
    <<"A","p","p","r","o","v","e","d">>,
    <<"y","e","s">>,
    <<"Y","e","s">>,
    <<"y">>,
    <<"Y">>,
    <<"U+2713">>,
    <<"U+2705">> }

\* rejection tokens in several cases
RejectionCores ==
  { <<"r","e","j","e","c","t">>,
    <<"R","E","J","E","C","T">>,
    <<"R","e","j","e","c","t","e","d">>,
    <<"n","o">>,
    <<"N","o">>,
    <<"n">>,
    <<"N">>,
    <<"U+2717">>,
    <<"U+274C">> }

\* the feedback pattern
FeedbackCores ==
  { <<"f","e","e","d","b","a","c","k",":"," ","x">>,
    <<"F","E","E","D","B","A","C","K",":"," ","X">>,
    <<"F","e","e","d","b","a","c","k",":","x">>,
    <<"f","e","e","d","b","a","c","k",":"," "," ","A","b"," ","c">>,
    <<"f","e","e","d","b","a","c","k",":">>,
    <<"f","e","e","d","b","a","c","k",":"," ","a","\n","b">>,
    <<"f","e","e","d","b","a","c","k",":","\n","a","b">>,
    <<"f","e","e","d","b","a","c","k",":"," ","x"," ","f","e","e","d","b","a","c","k",":"," ","y">>,
    <<"f","e","e","d","b","a","c","k",":"," ","a","p","p","r","o","v","e">> }

\* anything else
OtherCores ==
  { <<>>,
    <<"h","m">>,
    <<"I"," ","a","p","p","r","o","v","e">>,
    <<"o","k"," ","U+2713">>,
    <<"n","o","t"," ","a","p","p","r","o","v","e","d">>,
    <<"a"," ","f","e","e","d","b","a","c","k",":"," ","b">>,
    <<"y","e","s"," ","p","l","e","a","s","e">>,
    <<"n","o","p","e">>,
    <<"x","\n","y">> }

Cores == ApprovalCores \cup RejectionCores \cup FeedbackCores \cup OtherCores

TextInputs == { p1 \o c \o p2 : p1 \in Pads, c \in Cores, p2 \in Pads }

----------------------------------------------------------------------------
VARIABLES
  \* weekly_meal_planner_flow
  pc,                 \* position of the flow
  regeneration_count,
  approval_received,
  feedback_text,      \* None or a text
  meal_plan,          \* number of the plan bound to meal_plan, 0 = unbound
  message_ts,         \* thread handle returned by post_to_slack_task, 0 = unbound
  pause_key,          \* n of "approval-n", -1 = unbound
  approval_input,     \* the ApprovalInput pause_flow_run returned
  \* Prefect server: the pauses of the flow run, by key
  gate,               \* key -> "None" | "Pending" | "Resolved" | "Expired"
  gateInput,          \* key -> run_input stored for the pause
  resolver,           \* key -> the resume requests the server accepted for it
  \* Slack
  threads,            \* message ts -> [round, replies]
  pushPending,        \* slack.message.reply events not yet acted on
  \* slack-approval-polling flow runs, one per round; result is how
  \* poll_slack_and_resume_flow ended: "success" after resume_prefect_flow
  \* returned, "timeout" in `except TimeoutError`, "raised" in
  \* `except Exception`; in each case it returns to its caller
  poller,
  \* history
  generateCalls,      \* the feedback argument of every generate_meals_task call
  observed,           \* round -> decision with which the flow left the pause
  leaves,             \* round -> number of times the flow left the pause
  successReports,     \* round -> number of resume calls for that round's plan
                      \* whose caller was told that the resume succeeded
  lateSuccess,        \* a resume_prefect_flow call made for a gate that was
                      \* Resolved or Expired returned {"success": True}
  tasksCreated,       \* the plans handed to create_grocery_tasks_task
  finalPosted,        \* the messages posted by post_final_plan_task
  groceryPosted,      \* the plans handed to post_simple_grocery_list_task
  \* Decision Normalizer under test
  text, pollDecision, pushDecision,
  \* task-list writer under test
  environ,            \* os.environ["TODOIST_GROCERY_PROJECT_ID"] and the Prefect
                      \* variable todoist-grocery-project-id, None = not set
  validation,         \* a call validate_project_id(project_id) and how it ended
  writer,             \* a call create_grocery_tasks_from_meal_plan(meal_plan)
  ingredients,        \* the ingredient counts of a meal plan, as the writer and
                      \* the helpers of utils/ingredient_helpers.py compute them
  \* thread monitor under test
  monitor             \* a call monitor_slack_thread_for_approval(..., timeout_seconds,
                      \* poll_interval_seconds)

flowVars == <<pc, regeneration_count, approval_received, feedback_text,
              meal_plan, message_ts, pause_key, approval_input>>
gateVars == <<gate, gateInput, resolver>>
slackVars == <<threads, pushPending>>
histVars == <<generateCalls, observed, leaves, successReports, lateSuccess,
              tasksCreated, finalPosted, groceryPosted>>
parseVars == <<text, pollDecision, pushDecision>>
secVars == <<environ, validation, writer, ingredients>>
pureVars == <<parseVars, secVars, monitor>>

vars == <<flowVars, gateVars, slackVars, poller, histVars, pureVars>>

NoPoller == [pc |-> "none", thread_ts |-> 0, flow_run_id |-> "", pause_key |-> -1,
             elapsed_time |-> 0, approval_input |-> NoInput, result |-> "none"]

InitFlow ==
  /\ pc = "parse_preferences"
  /\ regeneration_count = 0
  /\ approval_received = FALSE
  /\ feedback_text = None
  /\ meal_plan = 0
  /\ message_ts = 0
  /\ pause_key = -1
  /\ approval_input = NoInput
  /\ gate = [k \in Rounds |-> "None"]
  /\ gateInput = [k \in Rounds |-> NoInput]
  /\ resolver = [k \in Rounds |-> <<>>]
  /\ threads = <<>>
  /\ pushPending = {}
  /\ poller = [k \in Rounds |-> NoPoller]
  /\ generateCalls = <<>>
  /\ observed = [k \in Rounds |-> NoInput]
  /\ leaves = [k \in Rounds |-> 0]
  /\ successReports = [k \in Rounds |-> 0]
  /\ lateSuccess = FALSE
  /\ tasksCreated = <<>>
  /\ finalPosted = <<>>
  /\ groceryPosted = <<>>

\* no call of the task-list writer or of the validator is examined
NoWriter ==
  [pc |-> "idle", plan |-> [meal |-> 0, shared |-> 0], project_id |-> None,
   error |-> "none", total_ingredients |-> 0, mcp_connections |-> 0,
   agent_runs |-> 0, prompt_project_id |-> None, created_tasks |-> <<>>]

\* no meal plan is examined for its ingredients
NoIngredients ==
  [pc |-> "idle", meal_plan |-> [meals |-> <<>>, shared_ingredients |-> <<>>],
   total_tasks |-> 0, collected |-> <<>>, unique |-> {}, count |-> 0]

\* no call of the thread monitor is examined
NoMonitor ==
  [pc |-> "idle", timeout_seconds |-> 0, poll_interval_seconds |-> 1,
   elapsed_time |-> 0, fetches |-> 0, errors_logged |-> 0, outcome |-> "none",
   approval_input |-> NoInput]

InitNoWriter ==
  /\ environ = [TODOIST_GROCERY_PROJECT_ID |-> None, prefect_variable |-> None]
  /\ validation = [project_id |-> None, outcome |-> "none"]
  /\ writer = NoWriter
  /\ ingredients = NoIngredients
  /\ monitor = NoMonitor

Init ==
  /\ InitFlow
  /\ text = <<>>
  /\ pollDecision = NoInput
  /\ pushDecision = NoInput
  /\ InitNoWriter

----------------------------------------------------------------------------
(* weekly_meal_planner_flow                                                *)

\* Task 1: parse_preferences_task
ParsePreferences ==
  /\ pc = "parse_preferences"
  /\ pc' = "loop"
  /\ UNCHANGED <<regeneration_count, approval_received, feedback_text, meal_plan,
                 message_ts, pause_key, approval_input>>
  /\ UNCHANGED <<gateVars, slackVars, poller, histVars, pureVars>>

\* while not approval_received and regeneration_count <= 3
\* mutant: `<` for `<=` in the loop condition
LoopTestOneRoundLess ==
  /\ pc = "loop"
  /\ pc' = IF ~approval_received /\ regeneration_count < LoopLimit
           THEN "generate" ELSE "create_grocery_tasks"
  /\ UNCHANGED <<regeneration_count, approval_received, feedback_text, meal_plan,
                 message_ts, pause_key, approval_input>>
  /\ UNCHANGED <<gateVars, slackVars, poller, histVars, pureVars>>

LoopTest ==
  /\ pc = "loop"
  /\ pc' = IF ~approval_received /\ regeneration_count <= LoopLimit
           THEN "generate" ELSE "create_grocery_tasks"
  /\ UNCHANGED <<regeneration_count, approval_received, feedback_text, meal_plan,
                 message_ts, pause_key, approval_input>>
  /\ UNCHANGED <<gateVars, slackVars, poller, histVars, pureVars>>

\* mutant: every generation is called without feedback
GenerateNoFeedback ==
  /\ pc = "generate"
  /\ generateCalls' = Append(generateCalls, None)
  /\ meal_plan' = Len(generateCalls) + 1
  /\ pc' = "post_to_slack"
  /\ UNCHANGED <<regeneration_count, approval_received, feedback_text,
                 message_ts, pause_key, approval_input>>
  /\ UNCHANGED <<gateVars, slackVars, poller, pureVars>>
  /\ UNCHANGED <<observed, leaves, successReports, lateSuccess, tasksCreated,
                 finalPosted, groceryPosted>>

\* Task 2: meal_plan = await generate_meals_task(preferences, feedback_text)
Generate ==
  /\ pc = "generate"
  /\ generateCalls' = Append(generateCalls, feedback_text)
  /\ meal_plan' = Len(generateCalls) + 1
  /\ pc' = "post_to_slack"
  /\ UNCHANGED <<regeneration_count, approval_received, feedback_text,
                 message_ts, pause_key, approval_input>>
  /\ UNCHANGED <<gateVars, slackVars, poller, pureVars>>
  /\ UNCHANGED <<observed, leaves, successReports, lateSuccess, tasksCreated, finalPosted, groceryPosted>>

\* Task 3: message_ts = await post_to_slack_task(meal_plan, current_flow_run_id)
PostToSlack ==
  /\ pc = "post_to_slack"
  /\ threads' = Append(threads, [round |-> regeneration_count, plan |-> meal_plan,
                                 replies |-> <<>>])
  /\ message_ts' = Len(threads) + 1
  /\ pc' = "run_deployment"
  /\ UNCHANGED <<regeneration_count, approval_received, feedback_text, meal_plan,
                 pause_key, approval_input>>
  /\ UNCHANGED <<gateVars, pushPending, poller, histVars, pureVars>>

\* mutant: the polling flow is started with the default key "approval-0"
KickOffPollingDefaultKey ==
  /\ pc = "run_deployment"
  /\ pause_key' = regeneration_count
  /\ poller' = [poller EXCEPT ![regeneration_count] =
                  [pc |-> "polling", thread_ts |-> message_ts,
                   flow_run_id |-> FlowRunId, pause_key |-> 0,
                   elapsed_time |-> 0, approval_input |-> NoInput,
                   result |-> "none"]]
  /\ pc' = "pause"
  /\ UNCHANGED <<regeneration_count, approval_received, feedback_text, meal_plan,
                 message_ts, approval_input>>
  /\ UNCHANGED <<gateVars, slackVars, histVars, pureVars>>

\* Task 4: pause_key = f"approval-{regeneration_count}", then run_deployment of
\* slack-approval-polling with timeout=0 (not awaited); the run starts with
\* elapsed_time = 0
KickOffPolling ==
  /\ pc = "run_deployment"
  /\ pause_key' = regeneration_count
  /\ poller' = [poller EXCEPT ![regeneration_count] =
                  [pc |-> "polling", thread_ts |-> message_ts,
                   flow_run_id |-> FlowRunId, pause_key |-> regeneration_count,
                   elapsed_time |-> 0, approval_input |-> NoInput,
                   result |-> "none"]]
  /\ pc' = "pause"
  /\ UNCHANGED <<regeneration_count, approval_received, feedback_text, meal_plan,
                 message_ts, approval_input>>
  /\ UNCHANGED <<gateVars, slackVars, histVars, pureVars>>

\* Task 5: pause_flow_run(wait_for_input=ApprovalInput, timeout, key=pause_key):
\* the flow run enters the Paused state under pause_key
Pause ==
  /\ pc = "pause"
  /\ gate' = [gate EXCEPT ![pause_key] = "Pending"]
  /\ pc' = "paused"
  /\ UNCHANGED <<regeneration_count, approval_received, feedback_text, meal_plan,
                 message_ts, pause_key, approval_input>>
  /\ UNCHANGED <<gateInput, resolver, slackVars, poller, histVars, pureVars>>

\* mutant: the input is read under the key of the first pause
PauseReturnFirstKey ==
  /\ pc = "paused"
  /\ gate[pause_key] = "Resolved"
  /\ approval_input' = gateInput[0]
  /\ observed' = [observed EXCEPT ![pause_key] = gateInput[0]]
  /\ leaves' = [leaves EXCEPT ![pause_key] = @ + 1]
  /\ pc' = "branch"
  /\ UNCHANGED <<regeneration_count, approval_received, feedback_text, meal_plan,
                 message_ts, pause_key>>
  /\ UNCHANGED <<gateVars, slackVars, poller, pureVars>>
  /\ UNCHANGED <<generateCalls, successReports, lateSuccess, tasksCreated,
                 finalPosted, groceryPosted>>

\* mutant: the flow does not wait for the resume
PauseReturnNoWait ==
  /\ pc = "paused"
  /\ approval_input' = Decision(FALSE, <<"x">>, TRUE)
  /\ observed' = [observed EXCEPT ![pause_key] = Decision(FALSE, <<"x">>, TRUE)]
  /\ leaves' = [leaves EXCEPT ![pause_key] = @ + 1]
  /\ pc' = "branch"
  /\ UNCHANGED <<regeneration_count, approval_received, feedback_text, meal_plan,
                 message_ts, pause_key>>
  /\ UNCHANGED <<gateVars, slackVars, poller, pureVars>>
  /\ UNCHANGED <<generateCalls, successReports, lateSuccess, tasksCreated,
                 finalPosted, groceryPosted>>

\* pause_flow_run returns the run input stored for its key once the flow run
\* was resumed
PauseReturn ==
  /\ pc = "paused"
  /\ gate[pause_key] = "Resolved"
  /\ approval_input' = gateInput[pause_key]
  /\ observed' = [observed EXCEPT ![pause_key] = gateInput[pause_key]]
  /\ leaves' = [leaves EXCEPT ![pause_key] = @ + 1]
  /\ pc' = "branch"
  /\ UNCHANGED <<regeneration_count, approval_received, feedback_text, meal_plan,
                 message_ts, pause_key>>
  /\ UNCHANGED <<gateVars, slackVars, poller, pureVars>>
  /\ UNCHANGED <<generateCalls, successReports, lateSuccess, tasksCreated, finalPosted, groceryPosted>>

\* mutant: the timeout is caught and the plan is used as if approved
PauseTimeoutSwallowed ==
  /\ pc = "paused"
  /\ gate[pause_key] = "Pending"
  /\ gate' = [gate EXCEPT ![pause_key] = "Expired"]
  /\ approval_received' = TRUE
  /\ pc' = "loop"
  /\ UNCHANGED <<regeneration_count, feedback_text, meal_plan,
                 message_ts, pause_key, approval_input>>
  /\ UNCHANGED <<gateInput, resolver, slackVars, poller, histVars, pureVars>>

\* pause_flow_run raises when the pause times out; the flow run fails
PauseTimeout ==
  /\ pc = "paused"
  /\ gate[pause_key] = "Pending"
  /\ gate' = [gate EXCEPT ![pause_key] = "Expired"]
  /\ pc' = "failed"
  /\ UNCHANGED <<regeneration_count, approval_received, feedback_text, meal_plan,
                 message_ts, pause_key, approval_input>>
  /\ UNCHANGED <<gateInput, resolver, slackVars, poller, histVars, pureVars>>

\* truthiness of approval_input.feedback: neither None nor the empty text
Truthy(f) == f # None /\ f # <<>>

\* mutant: `>=` for `>` in the test of the attempts
BranchOffByOne ==
  /\ pc = "branch"
  /\ IF approval_input.approved
     THEN /\ approval_received' = TRUE
          /\ UNCHANGED <<feedback_text, regeneration_count>>
     ELSE IF approval_input.regenerate /\ Truthy(approval_input.feedback)
     THEN /\ feedback_text' = approval_input.feedback
          /\ regeneration_count' = regeneration_count + 1
          /\ approval_received' =
               IF regeneration_count + 1 >= max_regeneration_attempts
               THEN TRUE ELSE approval_received
     ELSE /\ approval_received' = TRUE
          /\ UNCHANGED <<feedback_text, regeneration_count>>
  /\ pc' = "loop"
  /\ UNCHANGED <<meal_plan, message_ts, pause_key, approval_input>>
  /\ UNCHANGED <<gateVars, slackVars, poller, histVars, pureVars>>

\* mutant: a rejection without feedback does not end the loop
BranchRejectContinues ==
  /\ pc = "branch"
  /\ IF approval_input.approved
     THEN /\ approval_received' = TRUE
          /\ UNCHANGED <<feedback_text, regeneration_count>>
     ELSE IF approval_input.regenerate /\ Truthy(approval_input.feedback)
     THEN /\ feedback_text' = approval_input.feedback
          /\ regeneration_count' = regeneration_count + 1
          /\ approval_received' =
               IF regeneration_count + 1 > max_regeneration_attempts
               THEN TRUE ELSE approval_received
     ELSE UNCHANGED <<approval_received, feedback_text, regeneration_count>>
  /\ pc' = "loop"
  /\ UNCHANGED <<meal_plan, message_ts, pause_key, approval_input>>
  /\ UNCHANGED <<gateVars, slackVars, poller, histVars, pureVars>>

\* if approval_input.approved / elif regenerate and feedback / else
Branch ==
  /\ pc = "branch"
  /\ IF approval_input.approved
     THEN /\ approval_received' = TRUE
          /\ UNCHANGED <<feedback_text, regeneration_count>>
     ELSE IF approval_input.regenerate /\ Truthy(approval_input.feedback)
     THEN /\ feedback_text' = approval_input.feedback
          /\ regeneration_count' = regeneration_count + 1
          /\ approval_received' =
               IF regeneration_count + 1 > max_regeneration_attempts
               THEN TRUE ELSE approval_received
     ELSE /\ approval_received' = TRUE
          /\ UNCHANGED <<feedback_text, regeneration_count>>
  /\ pc' = "loop"
  /\ UNCHANGED <<meal_plan, message_ts, pause_key, approval_input>>
  /\ UNCHANGED <<gateVars, slackVars, poller, histVars, pureVars>>

\* mutant: the flow goes on to the final post without the task-list writer
CreateGroceryTasksSkipped ==
  /\ pc = "create_grocery_tasks"
  /\ pc' = "post_final_plan"
  /\ UNCHANGED <<regeneration_count, approval_received, feedback_text, meal_plan,
                 message_ts, pause_key, approval_input>>
  /\ UNCHANGED <<gateVars, slackVars, poller, histVars, pureVars>>

\* Task 5: created_tasks = await create_grocery_tasks_task(meal_plan)
CreateGroceryTasks ==
  /\ pc = "create_grocery_tasks"
  /\ tasksCreated' = Append(tasksCreated, meal_plan)
  /\ pc' = "post_final_plan"
  /\ UNCHANGED <<regeneration_count, approval_received, feedback_text, meal_plan,
                 message_ts, pause_key, approval_input>>
  /\ UNCHANGED <<gateVars, slackVars, poller, pureVars>>
  /\ UNCHANGED <<generateCalls, observed, leaves, successReports, lateSuccess, finalPosted, groceryPosted>>

\* post_final_meal_plan_to_slack(meal_plan): the message posted to the channel,
\* its first line and the plan whose details follow
post_final_meal_plan_to_slack(plan) ==
  [header |-> "MEAL PLAN APPROVED", plan |-> plan]

\* Task 6: await post_final_plan_task(meal_plan)
PostFinalPlan ==
  /\ pc = "post_final_plan"
  /\ finalPosted' = Append(finalPosted, post_final_meal_plan_to_slack(meal_plan))
  /\ pc' = "post_simple_grocery_list"
  /\ UNCHANGED <<regeneration_count, approval_received, feedback_text, meal_plan,
                 message_ts, pause_key, approval_input>>
  /\ UNCHANGED <<gateVars, slackVars, poller, pureVars>>
  /\ UNCHANGED <<generateCalls, observed, leaves, successReports, lateSuccess, tasksCreated, groceryPosted>>

\* mutant: the grocery list is posted for the plan of the first round
PostSimpleGroceryListFirstPlan ==
  /\ pc = "post_simple_grocery_list"
  /\ groceryPosted' = Append(groceryPosted, 1)
  /\ pc' = "done"
  /\ UNCHANGED <<regeneration_count, approval_received, feedback_text, meal_plan,
                 message_ts, pause_key, approval_input>>
  /\ UNCHANGED <<gateVars, slackVars, poller, pureVars>>
  /\ UNCHANGED <<generateCalls, observed, leaves, successReports, lateSuccess, tasksCreated, finalPosted>>

\* Task 7: await post_simple_grocery_list_task(meal_plan), then return
PostSimpleGroceryList ==
  /\ pc = "post_simple_grocery_list"
  /\ groceryPosted' = Append(groceryPosted, meal_plan)
  /\ pc' = "done"
  /\ UNCHANGED <<regeneration_count, approval_received, feedback_text, meal_plan,
                 message_ts, pause_key, approval_input>>
  /\ UNCHANGED <<gateVars, slackVars, poller, pureVars>>
  /\ UNCHANGED <<generateCalls, observed, leaves, successReports, lateSuccess, tasksCreated, finalPosted>>

\* a task of the flow (or the call that triggers the polling deployment)
\* raises after its retries: the exception leaves the flow
TaskPcs == { "parse_preferences", "generate", "post_to_slack", "run_deployment",
             "create_grocery_tasks", "post_final_plan", "post_simple_grocery_list" }

TaskRaises ==
  /\ pc \in TaskPcs
  /\ pc' = "failed"
  /\ UNCHANGED <<regeneration_count, approval_received, feedback_text, meal_plan,
                 message_ts, pause_key, approval_input>>
  /\ UNCHANGED <<gateVars, slackVars, poller, histVars, pureVars>>

----------------------------------------------------------------------------
(* Slack: a human replies in the thread of a posted plan.  The reply is    *)
(* what the polling flow reads, and it is sent as a slack.message.reply    *)
(* event to the webhook of the automation.                                 *)

RECURSIVE SumReplies(_)
SumReplies(n) == IF n = 0 THEN 0 ELSE Len(threads[n].replies) + SumReplies(n - 1)

TotalReplies == SumReplies(Len(threads))

Reply(ts, t) ==
  /\ ts \in 1..Len(threads)
  /\ TotalReplies < MaxReplies
  /\ threads' = [threads EXCEPT ![ts].replies = Append(@, t)]
  /\ pushPending' = pushPending \cup
        { [ts |-> ts, idx |-> Len(threads[ts].replies) + 1, text |-> t] }
  /\ UNCHANGED <<flowVars, gateVars, poller, histVars, pureVars>>

----------------------------------------------------------------------------
(* Prefect server: resume of the flow run flow_run_id with a run input.    *)
(* The request names the flow run only.  A Paused flow run is resumed and  *)
(* the input is stored for the key of its pause; for a flow run that is    *)
(* not Paused the server answers with an ABORT result and changes nothing. *)

PendingKeys == { k \in Rounds : gate[k] = "Pending" }

\* the key of the pause the flow run is suspended in, -1 when not Paused
PausedKey == IF PendingKeys = {} THEN -1 ELSE CHOOSE k \in PendingKeys : TRUE

resume_flow_run(run_input, ch, src) ==
  IF PausedKey # -1
  THEN /\ gate' = [gate EXCEPT ![PausedKey] = "Resolved"]
       /\ gateInput' = [gateInput EXCEPT ![PausedKey] = run_input]
       /\ resolver' = [resolver EXCEPT ![PausedKey] =
                         Append(@, [ch |-> ch, src |-> src, dec |-> run_input])]
  ELSE UNCHANGED <<gate, gateInput, resolver>>

----------------------------------------------------------------------------
(* Push channel: the automation resume-flow-on-slack-approval reacts to a  *)
(* slack.message.reply event with ResumeFlowRun and the templated input.   *)

PushResume(e) ==
  /\ e \in pushPending
  /\ pushPending' = pushPending \ {e}
  /\ resume_flow_run(webhook_run_input(e.text), "push", threads[e.ts].round)
  /\ successReports' =
       IF PausedKey # -1
       THEN [successReports EXCEPT ![threads[e.ts].round] = @ + 1]
       ELSE successReports
  /\ UNCHANGED <<flowVars, threads, poller, pureVars>>
  /\ UNCHANGED <<generateCalls, observed, leaves, lateSuccess, tasksCreated,
                 finalPosted, groceryPosted>>

----------------------------------------------------------------------------
(* Poll channel: slack_approval_polling_flow -> poll_slack_and_resume_flow *)
(* -> monitor_slack_thread_for_approval, resume_prefect_flow.              *)

\* `while elapsed_time < timeout_seconds`: fetch the replies of the thread; the
\* first one is parsed and returned, otherwise the run goes to sleep.
\* elapsed_time is local to monitor_slack_thread_for_approval: it is 0 again
\* once that function is left
PollFetch(k) ==
  /\ poller[k].pc = "polling"
  /\ poller[k].elapsed_time < PollTimeout
  /\ LET messages == threads[poller[k].thread_ts].replies
     IN  IF messages # <<>>
         THEN poller' = [poller EXCEPT
                 ![k].approval_input = parse_slack_response(messages[1]),
                 ![k].elapsed_time = 0,
                 ![k].pc = "resume"]
         ELSE poller' = [poller EXCEPT ![k].pc = "sleep"]
  /\ UNCHANGED <<flowVars, gateVars, slackVars, histVars, pureVars>>

\* conversations_replies raises SlackApiError: logged, then sleep
PollFetchError(k) ==
  /\ poller[k].pc = "polling"
  /\ poller[k].elapsed_time < PollTimeout
  /\ poller' = [poller EXCEPT ![k].pc = "sleep"]
  /\ UNCHANGED <<flowVars, gateVars, slackVars, histVars, pureVars>>

\* conversations_replies raises an exception that is not a SlackApiError (the
\* connection fails): `except SlackApiError` does not catch it, it leaves
\* monitor_slack_thread_for_approval and the `except Exception` of
\* poll_slack_and_resume_flow logs it and ends
PollFetchRaises(k) ==
  /\ poller[k].pc = "polling"
  /\ poller[k].elapsed_time < PollTimeout
  /\ poller' = [poller EXCEPT ![k].pc = "done", ![k].elapsed_time = 0,
                               ![k].result = "raised"]
  /\ UNCHANGED <<flowVars, gateVars, slackVars, histVars, pureVars>>

\* mutant: the TimeoutError is not caught and leaves poll_slack_and_resume_flow
PollTimesOutRaises(k) ==
  poller' = [poller EXCEPT ![k].pc = "done", ![k].elapsed_time = 0,
                           ![k].result = "TimeoutError"]

\* the loop ends: TimeoutError leaves monitor_slack_thread_for_approval and is
\* caught by poll_slack_and_resume_flow, which logs it and returns
PollTimesOut(k) ==
  poller' = [poller EXCEPT ![k].pc = "done", ![k].elapsed_time = 0,
                           ![k].result = "timeout"]

\* await asyncio.sleep(poll_interval_seconds); elapsed_time += poll_interval_seconds;
\* then the loop condition is tested again
PollSleep(k) ==
  /\ poller[k].pc = "sleep"
  /\ IF poller[k].elapsed_time + PollInterval < PollTimeout
     THEN poller' = [poller EXCEPT ![k].pc = "polling",
                                   ![k].elapsed_time = @ + PollInterval]
     ELSE PollTimesOut(k)
  /\ UNCHANGED <<flowVars, gateVars, slackVars, histVars, pureVars>>

\* resume_prefect_flow(flow_run_id, approval_input, key): the key is logged
\* only; whatever the server answers, {"success": True} is returned
PollResume(k) ==
  /\ poller[k].pc = "resume"
  /\ resume_flow_run(poller[k].approval_input, "poll", poller[k].pause_key)
  /\ successReports' = [successReports EXCEPT ![poller[k].pause_key] = @ + 1]
  /\ lateSuccess' = (lateSuccess \/ gate[poller[k].pause_key] \in {"Resolved", "Expired"})
  /\ poller' = [poller EXCEPT ![k].pc = "done", ![k].result = "success"]
  /\ UNCHANGED <<flowVars, slackVars, pureVars>>
  /\ UNCHANGED <<generateCalls, observed, leaves, tasksCreated, finalPosted, groceryPosted>>

\* mutant: after a failed resume the thread is polled again
PollResumeRaisesKeepsPolling(k) ==
  /\ poller[k].pc = "resume"
  /\ poller' = [poller EXCEPT ![k].pc = "polling"]
  /\ UNCHANGED <<flowVars, gateVars, slackVars, histVars, pureVars>>

\* the request fails: resume_prefect_flow re-raises, the `except Exception` of
\* poll_slack_and_resume_flow logs the exception and ends
PollResumeRaises(k) ==
  /\ poller[k].pc = "resume"
  /\ poller' = [poller EXCEPT ![k].pc = "done", ![k].result = "raised"]
  /\ UNCHANGED <<flowVars, gateVars, slackVars, histVars, pureVars>>

----------------------------------------------------------------------------
(* The two channels normalize one reply text.                              *)

InitParse ==
  /\ InitFlow
  /\ text \in TextInputs
  /\ pollDecision = NoInput
  /\ pushDecision = NoInput
  /\ InitNoWriter

\* monitor_slack_thread_for_approval: approved, feedback, regenerate =
\* parse_slack_response(message_text); ApprovalInput(...)
NormalizePoll ==
  /\ pollDecision = NoInput
  /\ pollDecision' = parse_slack_response(text)
  /\ UNCHANGED <<flowVars, gateVars, slackVars, poller, histVars, text, pushDecision, secVars, monitor>>

\* the automation renders run_input from event.resource.message_text
NormalizePush ==
  /\ pushDecision = NoInput
  /\ pushDecision' = webhook_run_input(text)
  /\ UNCHANGED <<flowVars, gateVars, slackVars, poller, histVars, text, pollDecision, secVars, monitor>>

NextParse == NormalizePoll \/ NormalizePush

SpecParse == InitParse /\ [][NextParse]_vars

----------------------------------------------------------------------------
(* Security layer and task-list writer: validate_project_id                *)
(* (src/src/security_validation.py), the Config field                      *)
(* todoist_grocery_project_id (src/src/config.py) and                      *)
(* create_grocery_tasks_from_meal_plan (src/src/todoist_mcp_integration.py).*)
(* A project id is a text or None.                                         *)

\* the project ids and settings examined
ProjectIds == { None, <<>>, <<" ">>, <<"1">>, <<"2">>, <<"1"," ">> }

\* values of the Prefect variable, None = the variable does not exist
PrefectValues == { None, <<" ">>, <<"1">>, <<"2">> }

\* the largest number of meal ingredients, and of shared ingredients, of a plan
MaxIngredients == 2

Plans == [meal : 0..MaxIngredients, shared : 0..MaxIngredients]

\* mutant: the check for an empty or blank project_id is left out
validate_project_id_no_blank_check(project_id) ==
  LET allowed_project_id == environ.TODOIST_GROCERY_PROJECT_ID
  IN  IF allowed_project_id = None \/ allowed_project_id = <<>> THEN "ValueError"
      ELSE IF project_id = None THEN "TypeError"
      ELSE IF project_id # allowed_project_id THEN "ProjectAccessDenied"
      ELSE "returned"

\* validate_project_id(project_id): "returned" when it returns normally,
\* otherwise the exception it raises
validate_project_id(project_id) ==
  LET allowed_project_id == environ.TODOIST_GROCERY_PROJECT_ID
  IN  IF allowed_project_id = None \/ allowed_project_id = <<>> THEN "ValueError"
      ELSE IF project_id = None THEN "TypeError"
      ELSE IF project_id = <<>> \/ strip(project_id) = <<>> THEN "ProjectAccessDenied"
      ELSE IF project_id # allowed_project_id THEN "ProjectAccessDenied"
      ELSE "returned"

\* validate_and_audit_task_creation(project_id, task_content): the destination
\* is validated against the allow-listed id, the attempt is logged for audit
validate_and_audit_task_creation(project_id) == validate_project_id(project_id)

\* get_variable("TODOIST_GROCERY_PROJECT_ID"): the Prefect variable when it
\* exists, otherwise os.getenv(name, "")
get_variable ==
  IF environ.prefect_variable # None THEN environ.prefect_variable
  ELSE IF environ.TODOIST_GROCERY_PROJECT_ID # None
       THEN environ.TODOIST_GROCERY_PROJECT_ID
       ELSE <<>>

\* get_config().todoist_grocery_project_id: load_config passes
\* `get_variable(...) or None`, the field validator turns a blank value into
\* None and strips any other
todoist_grocery_project_id ==
  LET v == get_variable
  IN  IF v = <<>> \/ strip(v) = <<>> THEN None ELSE strip(v)

InitWriter ==
  /\ InitFlow
  /\ text = <<>>
  /\ pollDecision = NoInput
  /\ pushDecision = NoInput
  /\ environ \in [TODOIST_GROCERY_PROJECT_ID : ProjectIds,
                   prefect_variable : PrefectValues]
  /\ validation \in [project_id : ProjectIds, outcome : {"none"}]
  /\ writer \in { [NoWriter EXCEPT !.pc = "start", !.plan = p] : p \in Plans }
  /\ ingredients = NoIngredients
  /\ monitor = NoMonitor

\* a call validate_project_id(project_id)
ValidateProjectId ==
  /\ validation.outcome = "none"
  /\ validation' = [validation EXCEPT !.outcome = validate_project_id(validation.project_id)]
  /\ UNCHANGED <<flowVars, gateVars, slackVars, poller, histVars, parseVars, monitor,
                 environ, writer, ingredients>>

\* config = get_config()
WriterGetConfig ==
  /\ writer.pc = "start"
  /\ writer' = [writer EXCEPT !.pc = "validate",
                              !.project_id = todoist_grocery_project_id]
  /\ UNCHANGED <<flowVars, gateVars, slackVars, poller, histVars, parseVars, monitor,
                 environ, validation, ingredients>>

\* mutant: the project id is not validated
WriterValidateSkipped ==
  /\ writer.pc = "validate"
  /\ writer' = [writer EXCEPT !.pc = "build"]
  /\ UNCHANGED <<flowVars, gateVars, slackVars, poller, histVars, parseVars, monitor,
                 environ, validation, ingredients>>

\* validate_and_audit_task_creation(project_id=config.todoist_grocery_project_id, ...):
\* an exception leaves create_grocery_tasks_from_meal_plan
WriterValidate ==
  /\ writer.pc = "validate"
  /\ LET outcome == validate_and_audit_task_creation(writer.project_id)
     IN  writer' = IF outcome = "returned"
                   THEN [writer EXCEPT !.pc = "build"]
                   ELSE [writer EXCEPT !.pc = "raised", !.error = outcome]
  /\ UNCHANGED <<flowVars, gateVars, slackVars, poller, histVars, parseVars, monitor,
                 environ, validation, ingredients>>

\* total_ingredients is counted, the MCPServerStreamableHTTP toolset, the Agent
\* and the PrefectAgent are constructed (no request is sent yet) and the
\* prompt is built with `project_id: {config.todoist_grocery_project_id}`
WriterBuildAgent ==
  /\ writer.pc = "build"
  /\ writer' = [writer EXCEPT
        !.pc = "run",
        !.total_ingredients = writer.plan.meal + writer.plan.shared,
        !.prompt_project_id = todoist_grocery_project_id]
  /\ UNCHANGED <<flowVars, gateVars, slackVars, poller, histVars, parseVars, monitor,
                 environ, validation, ingredients>>

\* result = await prefect_agent.run(prompt): the agent connects to the Todoist
\* MCP server and runs; the summary is returned as a list of one entry
WriterRunAgent ==
  /\ writer.pc = "run"
  /\ writer' = [writer EXCEPT
        !.pc = "returned",
        !.mcp_connections = @ + 1,
        !.agent_runs = @ + 1,
        !.created_tasks = << [success |-> TRUE,
                              total_tasks |-> writer.total_ingredients,
                              project_id |-> todoist_grocery_project_id] >>]
  /\ UNCHANGED <<flowVars, gateVars, slackVars, poller, histVars, parseVars, monitor,
                 environ, validation, ingredients>>

\* the agent run raises: `except Exception` raises ValueError from it
WriterRunAgentRaises ==
  /\ writer.pc = "run"
  /\ writer' = [writer EXCEPT !.pc = "raised", !.error = "ValueError",
                              !.mcp_connections = @ + 1, !.agent_runs = @ + 1]
  /\ UNCHANGED <<flowVars, gateVars, slackVars, poller, histVars, parseVars, monitor,
                 environ, validation, ingredients>>

\* weekly_meal_planner_flow reports "num_grocery_tasks": len(created_tasks)
num_grocery_tasks == Len(writer.created_tasks)

NextWriter ==
  \/ ValidateProjectId
  \/ WriterGetConfig
  \/ WriterValidate
  \/ WriterBuildAgent
  \/ WriterRunAgent
  \/ WriterRunAgentRaises

SpecWriter == InitWriter /\ [][NextWriter]_vars

----------------------------------------------------------------------------
(* monitor_slack_thread_for_approval as a function of timeout_seconds and  *)
(* poll_interval_seconds: the loop `while elapsed_time < timeout_seconds`, *)
(* one conversations_replies call per iteration.                           *)

\* the largest timeout_seconds and poll_interval_seconds examined
MaxTimeout == 4
MaxPollInterval == 2

InitMonitor ==
  /\ InitFlow
  /\ text = <<>>
  /\ pollDecision = NoInput
  /\ pushDecision = NoInput
  /\ environ = [TODOIST_GROCERY_PROJECT_ID |-> None, prefect_variable |-> None]
  /\ validation = [project_id |-> None, outcome |-> "none"]
  /\ writer = NoWriter
  /\ ingredients = NoIngredients
  /\ monitor \in { [NoMonitor EXCEPT !.pc = "loop", !.timeout_seconds = t,
                                      !.poll_interval_seconds = i] :
                     t \in (-1)..MaxTimeout, i \in 1..MaxPollInterval }

MonitorUnchanged ==
  UNCHANGED <<flowVars, gateVars, slackVars, poller, histVars, parseVars, secVars>>

\* while elapsed_time < timeout_seconds: ... ; after the loop TimeoutError is
\* raised
MonitorLoopTest ==
  /\ monitor.pc = "loop"
  /\ monitor' = IF monitor.elapsed_time < monitor.timeout_seconds
                THEN [monitor EXCEPT !.pc = "fetch"]
                ELSE [monitor EXCEPT !.pc = "ended", !.outcome = "TimeoutError"]
  /\ MonitorUnchanged

\* conversations_replies returns no reply
MonitorFetchNothing ==
  /\ monitor.pc = "fetch"
  /\ monitor' = [monitor EXCEPT !.pc = "sleep", !.fetches = @ + 1]
  /\ MonitorUnchanged

\* conversations_replies returns replies: the first is parsed and returned
MonitorFetchReply(t) ==
  /\ monitor.pc = "fetch"
  /\ monitor' = [monitor EXCEPT !.pc = "ended", !.fetches = @ + 1,
                                !.outcome = "returned",
                                !.approval_input = parse_slack_response(t)]
  /\ MonitorUnchanged

\* conversations_replies raises SlackApiError: logged, the loop goes on
MonitorFetchError ==
  /\ monitor.pc = "fetch"
  /\ monitor' = [monitor EXCEPT !.pc = "sleep", !.fetches = @ + 1,
                                !.errors_logged = @ + 1]
  /\ MonitorUnchanged

\* conversations_replies raises an exception that is not a SlackApiError: it
\* leaves the function
MonitorFetchRaises ==
  /\ monitor.pc = "fetch"
  /\ monitor' = [monitor EXCEPT !.pc = "ended", !.fetches = @ + 1,
                                !.outcome = "raised"]
  /\ MonitorUnchanged

\* await asyncio.sleep(poll_interval_seconds); elapsed_time += poll_interval_seconds
MonitorSleep ==
  /\ monitor.pc = "sleep"
  /\ monitor' = [monitor EXCEPT !.pc = "loop",
                                !.elapsed_time = @ + monitor.poll_interval_seconds]
  /\ MonitorUnchanged

NextMonitor ==
  \/ MonitorLoopTest
  \/ MonitorFetchNothing
  \/ \E t \in ReplyTexts : MonitorFetchReply(t)
  \/ MonitorFetchError
  \/ MonitorFetchRaises
  \/ MonitorSleep

SpecMonitor == InitMonitor /\ [][NextMonitor]_vars

----------------------------------------------------------------------------
(* Ingredient counts: the count of create_grocery_tasks_from_meal_plan and *)
(* collect_all_ingredients, collect_unique_ingredient_names and            *)
(* count_total_ingredients (src/src/utils/ingredient_helpers.py).  An      *)
(* ingredient is modelled by its name, a meal by its list of ingredients.  *)

IngredientNames == { "Tomato", "Salt" }

\* the largest number of meals of a plan
MaxMeals == 2

SeqsUpTo(S, n) == UNION { [1..k -> S] : k \in 0..n }

Meals == [ingredients : SeqsUpTo(IngredientNames, MaxIngredients)]

MealPlans ==
  [meals : SeqsUpTo(Meals, MaxMeals),
   shared_ingredients : SeqsUpTo(IngredientNames, MaxIngredients)]

\* sum(len(meal.ingredients) for meal in meal_plan.meals)
RECURSIVE SumLen(_)
SumLen(meals) ==
  IF meals = <<>> THEN 0 ELSE Len(Head(meals).ingredients) + SumLen(Tail(meals))

\* total_ingredients of create_grocery_tasks_from_meal_plan, returned as
\* total_tasks
total_ingredients(plan) ==
  SumLen(plan.meals) + Len(plan.shared_ingredients)

\* for meal in meal_plan.meals: yield from meal.ingredients
RECURSIVE YieldMeals(_)
YieldMeals(meals) ==
  IF meals = <<>> THEN <<>> ELSE Head(meals).ingredients \o YieldMeals(Tail(meals))

\* mutant: the shared ingredients are yielded first
collect_all_ingredients_shared_first(plan) ==
  plan.shared_ingredients \o YieldMeals(plan.meals)

\* collect_all_ingredients(plan): what the generator yields, in order
collect_all_ingredients(plan) ==
  YieldMeals(plan.meals) \o plan.shared_ingredients

\* {ingredient.name for ingredient in collect_all_ingredients(plan)}
collect_unique_ingredient_names(plan) ==
  LET all == collect_all_ingredients(plan)
  IN  { all[i] : i \in 1..Len(all) }

\* sum(1 for _ in it)
RECURSIVE SumOnes(_)
SumOnes(it) == IF it = <<>> THEN 0 ELSE 1 + SumOnes(Tail(it))

count_total_ingredients(plan) == SumOnes(collect_all_ingredients(plan))

InitIngredients ==
  /\ InitFlow
  /\ text = <<>>
  /\ pollDecision = NoInput
  /\ pushDecision = NoInput
  /\ environ = [TODOIST_GROCERY_PROJECT_ID |-> None, prefect_variable |-> None]
  /\ validation = [project_id |-> None, outcome |-> "none"]
  /\ writer = NoWriter
  /\ ingredients \in { [NoIngredients EXCEPT !.pc = "total_tasks", !.meal_plan = p] :
                          p \in MealPlans }
  /\ monitor = NoMonitor

\* create_grocery_tasks_from_meal_plan counts the tasks to create
WriterCountsIngredients ==
  /\ ingredients.pc = "total_tasks"
  /\ ingredients' = [ingredients EXCEPT
        !.pc = "collect",
        !.total_tasks = total_ingredients(ingredients.meal_plan)]
  /\ UNCHANGED <<flowVars, gateVars, slackVars, poller, histVars, parseVars, monitor,
                 environ, validation, writer>>

\* list(collect_all_ingredients(meal_plan))
CollectAllIngredients ==
  /\ ingredients.pc = "collect"
  /\ ingredients' = [ingredients EXCEPT
        !.pc = "unique",
        !.collected = collect_all_ingredients(ingredients.meal_plan)]
  /\ UNCHANGED <<flowVars, gateVars, slackVars, poller, histVars, parseVars, monitor,
                 environ, validation, writer>>

\* collect_unique_ingredient_names(meal_plan)
CollectUniqueIngredientNames ==
  /\ ingredients.pc = "unique"
  /\ ingredients' = [ingredients EXCEPT
        !.pc = "count",
        !.unique = collect_unique_ingredient_names(ingredients.meal_plan)]
  /\ UNCHANGED <<flowVars, gateVars, slackVars, poller, histVars, parseVars, monitor,
                 environ, validation, writer>>

\* count_total_ingredients(meal_plan)
CountTotalIngredients ==
  /\ ingredients.pc = "count"
  /\ ingredients' = [ingredients EXCEPT
        !.pc = "done",
        !.count = count_total_ingredients(ingredients.meal_plan)]
  /\ UNCHANGED <<flowVars, gateVars, slackVars, poller, histVars, parseVars, monitor,
                 environ, validation, writer>>

NextIngredients ==
  \/ WriterCountsIngredients
  \/ CollectAllIngredients
  \/ CollectUniqueIngredientNames
  \/ CountTotalIngredients

SpecIngredients == InitIngredients /\ [][NextIngredients]_vars

----------------------------------------------------------------------------
Next ==
  \/ ParsePreferences
  \/ LoopTest
  \/ Generate
  \/ PostToSlack
  \/ KickOffPolling
  \/ Pause
  \/ PauseReturn
  \/ PauseTimeout
  \/ Branch
  \/ CreateGroceryTasks
  \/ PostFinalPlan
  \/ PostSimpleGroceryList
  \/ TaskRaises
  \/ \E ts \in 1..(LoopLimit + 1), t \in ReplyTexts : Reply(ts, t)
  \/ \E e \in pushPending : PushResume(e)
  \/ \E k \in Rounds : PollFetch(k)
  \/ \E k \in Rounds : PollFetchError(k)
  \/ \E k \in Rounds : PollFetchRaises(k)
  \/ \E k \in Rounds : PollSleep(k)
  \/ \E k \in Rounds : PollResume(k)
  \/ \E k \in Rounds : PollResumeRaises(k)

Spec == Init /\ [][Next]_vars

----------------------------------------------------------------------------
(* The run in which only the poll channel delivers: the automation of the  *)
(* push channel never fires, no fetch and no resume request fails, no task *)
(* raises, and a pause does not time out before the polling flow started   *)
(* for it has ended (both are given timeout_seconds, and the polling flow  *)
(* is triggered first).  The flow and every polling flow that can take a   *)
(* step eventually take it.  The human replies "y" (an approval), "x"      *)
(* (free text: a request to regenerate with feedback "x") or a message     *)
(* without text (a file is shared in the thread: the reply's text is "")   *)
(* in the thread of the current round, while that round's gate is Pending  *)
(* and its polling flow has not reached its deadline.                      *)

TextFree == <<"x">>

\* latest_message.get("text", "") of a reply that carries no text
TextEmpty == <<>>

PollReplyTexts == { TextApprove, TextFree, TextEmpty }

FlowStep ==
  \/ ParsePreferences
  \/ LoopTest
  \/ Generate
  \/ PostToSlack
  \/ KickOffPolling
  \/ Pause
  \/ PauseReturn
  \/ Branch
  \/ CreateGroceryTasks
  \/ PostFinalPlan
  \/ PostSimpleGroceryList

PollerStep(k) == PollFetch(k) \/ PollSleep(k) \/ PollResume(k)

\* pause_flow_run(timeout=timeout_seconds) gives up after the polling flow of
\* the round, started before it with the same timeout_seconds, has ended
PauseTimeoutAfterPoll ==
  /\ pc = "paused"
  /\ poller[pause_key].pc = "done"
  /\ PauseTimeout

\* a reply in the thread of the current round while its gate is Pending and
\* the loop of monitor_slack_thread_for_approval is still running
ReplyWhilePending(t) ==
  /\ pc = "paused"
  /\ gate[pause_key] = "Pending"
  /\ poller[pause_key].pc \in {"polling", "sleep"}
  /\ Reply(message_ts, t)

NextLive ==
  \/ FlowStep
  \/ PauseTimeoutAfterPoll
  \/ \E t \in PollReplyTexts : ReplyWhilePending(t)
  \/ \E k \in Rounds : PollerStep(k)

\* the same run without the assumption that a step is eventually taken
SpecPoll == Init /\ [][NextLive]_vars

SpecLive ==
  /\ Init
  /\ [][NextLive]_vars
  /\ WF_vars(FlowStep)
  /\ \A k \in Rounds : WF_vars(PollerStep(k))

----------------------------------------------------------------------------
(* Claims                                                                  *)

\* the thread in which round k's plan was posted, 0 when not yet posted
ThreadOf(k) ==
  IF \E ts \in 1..Len(threads) : threads[ts].round = k
  THEN CHOOSE ts \in 1..Len(threads) : threads[ts].round = k
  ELSE 0

\* a decision that asks for a regeneration
IsRegenerate(d) == ~d.approved /\ d.regenerate /\ Truthy(d.feedback)

\* a rejection without feedback
IsRejection(d) == ~d.approved /\ d.feedback = None

LoopExited ==
  pc \in {"create_grocery_tasks", "post_final_plan", "post_simple_grocery_list", "done"}

Claim_C2 ==
  /\ \A k \in Rounds : successReports[k] <= 1
  /\ ~lateSuccess

\* C3: a resume that comes from a reply to round n's plan is only ever
\* accepted for round n's gate.
Claim_C3 ==
  \A k \in Rounds : \A i \in 1..Len(resolver[k]) : resolver[k][i].src = k

\* C4: for every reply text the push channel and the poll channel submit the
\* same decision.
Claim_C4 ==
  (pollDecision # NoInput /\ pushDecision # NoInput) => pollDecision = pushDecision

\* C5: when every gate was resolved by a regenerate decision with feedback,
\* the flow never makes more than max_regeneration_attempts + 1 generate
\* calls, and when it has left the loop it has made exactly that many, one per
\* round 0..max_regeneration_attempts, the final plan is the last one
\* generated and no approval was observed.
Thm_C5 ==
  (\A k \in Rounds : observed[k] # NoInput => IsRegenerate(observed[k])) =>
    /\ Len(generateCalls) <= max_regeneration_attempts + 1
    /\ LoopExited =>
         /\ Len(generateCalls) = max_regeneration_attempts + 1
         /\ \A k \in 0..max_regeneration_attempts : leaves[k] = 1
         /\ meal_plan = max_regeneration_attempts + 1
         /\ regeneration_count = max_regeneration_attempts + 1
         /\ \A i \in 1..Len(tasksCreated) :
              tasksCreated[i] = max_regeneration_attempts + 1

\* C5: the loop was left after four regenerate decisions.
Wit_C5 ==
  /\ LoopExited
  /\ \A k \in 0..max_regeneration_attempts : IsRegenerate(observed[k])
  /\ Len(generateCalls) = 4

\* C6: once the decision of round k, a rejection without feedback, has been
\* branched on, no generate, post or pause follows: round k's plan is the final
\* plan, the regeneration count is the one round k was entered with, and the
\* flow is on its way out of the loop.
Thm_C6 ==
  \A k \in Rounds :
    (observed[k] # NoInput /\ IsRejection(observed[k]) /\ pc # "branch") =>
      /\ Len(generateCalls) = k + 1
      /\ Len(threads) = k + 1
      /\ pause_key = k
      /\ gate[k] = "Resolved" /\ PendingKeys = {}
      /\ meal_plan = k + 1
      /\ regeneration_count = k
      /\ approval_received
      /\ pc \in {"loop", "failed"} \/ LoopExited

\* C6: round k > 0 was rejected without feedback and the loop was left.
Wit_C6 ==
  \E k \in Rounds :
    k > 0 /\ observed[k] # NoInput /\ IsRejection(observed[k]) /\ LoopExited

\* C7: the first generate call gets no feedback, call n+2 gets the feedback
\* of round n's decision, which asked for a regeneration; and when round n+1
\* is then approved the final plan is plan n+2 and the count is n+1.
Thm_C7 ==
  /\ Len(generateCalls) >= 1 => generateCalls[1] = None
  /\ \A n \in Rounds :
       Len(generateCalls) >= n + 2 =>
         /\ IsRegenerate(observed[n])
         /\ generateCalls[n + 2] = observed[n].feedback
         /\ (observed[n + 1].approved /\ pc # "branch") =>
              /\ meal_plan = n + 2
              /\ regeneration_count = n + 1
              /\ Len(generateCalls) = n + 2

\* C7: round 0 asked for a regeneration with feedback, round 1 was approved
\* and the loop was left.
Wit_C7 ==
  /\ LoopExited
  /\ Len(generateCalls) = 2
  /\ generateCalls[2] = observed[0].feedback /\ Truthy(generateCalls[2])
  /\ observed[1].approved

\* C8: when a gate has expired the flow has failed, no decision was observed
\* for that gate, nothing was stored for it, and neither the task-list writer
\* nor a final post was invoked.
Thm_C8 ==
  \A k \in Rounds :
    gate[k] = "Expired" =>
      /\ pc = "failed"
      /\ observed[k] = NoInput /\ leaves[k] = 0
      /\ gateInput[k] = NoInput
      /\ ~approval_received
      /\ tasksCreated = <<>> /\ finalPosted = <<>> /\ groceryPosted = <<>>

\* C8: the gate of a round expired although a reply was posted and a resume
\* was attempted after the expiry.
Wit_C8 ==
  \E k \in Rounds :
    /\ gate[k] = "Expired"
    /\ poller[k].result = "success"
    /\ pushPending = {} /\ threads[ThreadOf(k)].replies # <<>>

\* C9: a polling flow exists for round k only after round k's plan was
\* posted, it carries the thread handle of that post, the run id and the pause
\* key of round k, and round k's pause is entered only when it exists.
Thm_C9 ==
  \A k \in Rounds :
    /\ poller[k].pc # "none" =>
         /\ ThreadOf(k) # 0
         /\ poller[k].thread_ts = ThreadOf(k)
         /\ threads[poller[k].thread_ts].plan = k + 1
         /\ poller[k].flow_run_id = FlowRunId
         /\ poller[k].pause_key = k
    /\ gate[k] # "None" => poller[k].pc # "none"
    /\ (pc \in {"pause", "paused"} /\ pause_key = k) =>
         /\ poller[k].pc # "none"
         /\ poller[k].thread_ts = message_ts

\* C9: the flow is suspended in the pause of a later round.
Wit_C9 ==
  \E k \in Rounds :
    k >= 1 /\ gate[k] = "Pending" /\ pc = "paused" /\ poller[k].pc = "polling"

\* C10: at most one gate is Pending, the flow is suspended in it, and the
\* generate call of round n+1 is made only after round n's gate was resolved
\* and the flow has left that pause.
Thm_C10 ==
  /\ Cardinality(PendingKeys) <= 1
  /\ \A k \in Rounds : gate[k] = "Pending" => (pc = "paused" /\ pause_key = k)
  /\ \A n \in Rounds :
       Len(generateCalls) >= n + 2 => (gate[n] = "Resolved" /\ leaves[n] = 1)
  /\ \A n \in Rounds :
       (gate[n] # "None" /\ n >= 1) => gate[n - 1] = "Resolved"

\* C10: round 2's plan was generated while no gate is Pending.
Wit_C10 ==
  /\ Len(generateCalls) = 3
  /\ pc = "post_to_slack"
  /\ gate[0] = "Resolved" /\ gate[1] = "Resolved" /\ gate[2] = "None"

\* C11: the task-list writer and the final notifier are each invoked at most
\* once, only after the loop was left and while no gate is Pending, with the
\* final plan (the last one generated); the final notifier is invoked only
\* after the task-list writer has returned, and a flow that has got past them
\* has invoked each exactly once.
Thm_C11 ==
  /\ Len(tasksCreated) <= 1 /\ Len(finalPosted) <= 1
  /\ finalPosted # <<>> => tasksCreated # <<>>
  /\ tasksCreated # <<>> =>
       /\ tasksCreated[1] = meal_plan /\ meal_plan = Len(generateCalls)
       /\ PendingKeys = {}
       /\ approval_received \/ regeneration_count > max_regeneration_attempts
  /\ finalPosted # <<>> => finalPosted[1].plan = tasksCreated[1]
  /\ ~LoopExited /\ pc # "failed" => tasksCreated = <<>> /\ finalPosted = <<>>
  /\ pc = "create_grocery_tasks" => tasksCreated = <<>> /\ finalPosted = <<>>
  /\ pc = "post_final_plan" => Len(tasksCreated) = 1 /\ finalPosted = <<>>
  /\ pc \in {"post_simple_grocery_list", "done"} =>
       Len(tasksCreated) = 1 /\ Len(finalPosted) = 1

\* C11: the flow has finished after the attempts were exhausted.
Wit_C11 ==
  /\ pc = "done"
  /\ regeneration_count > max_regeneration_attempts
  /\ Len(tasksCreated) = 1 /\ Len(finalPosted) = 1

\* the replies in the thread the polling flow of round k reads
RepliesOf(k) == threads[poller[k].thread_ts].replies

\* C12: a polling flow goes to its resume call only from a fetch that found a
\* reply, with the normalized first reply as input; from the resume call it
\* goes nowhere but to its end, whether the call returned or raised; and once
\* it has ended it never takes another step.
Thm_C12 ==
  [][\A k \in Rounds :
       /\ poller[k].pc = "done" => poller'[k] = poller[k]
       /\ poller[k].pc = "resume" => poller'[k].pc \in {"resume", "done"}
       /\ (poller[k].pc # "resume" /\ poller'[k].pc = "resume") =>
            /\ poller[k].pc = "polling"
            /\ RepliesOf(k) # <<>>
            /\ poller'[k].approval_input = parse_slack_response(RepliesOf(k)[1])]_vars

\* C12: the polling flow of round k made its resume call after the push
\* channel had resolved the gate, and a second reply is in its thread.
Wit_C12 ==
  \E k \in Rounds :
    /\ poller[k].result = "success"
    /\ Len(resolver[k]) = 1 /\ resolver[k][1].ch = "push"
    /\ Len(RepliesOf(k)) = 2

Claim_C14 ==
  [][\A k \in Rounds : poller[k].pc = "polling" => poller'[k].pc # "done"]_vars

\* C15: when a reply is in the thread of round k while the gate of round k is
\* Pending and the polling flow of round k has not reached its deadline, the
\* flow eventually leaves that pause with the normalized decision of a reply
\* of that thread.
Claim_C15 ==
  \A k \in Rounds :
    (/\ poller[k].pc \in {"polling", "sleep"}
     /\ gate[k] = "Pending"
     /\ RepliesOf(k) # <<>>)
    ~> (/\ leaves[k] = 1
        /\ \E i \in 1..Len(RepliesOf(k)) :
             observed[k] = parse_slack_response(RepliesOf(k)[i]))

\* C16: the final notification is headed "MEAL PLAN APPROVED" only when the
\* last decision with which the flow left a pause had approved = TRUE.
Claim_C16 ==
  \A i \in 1..Len(finalPosted) :
    finalPosted[i].header = "MEAL PLAN APPROVED"
      => (pause_key >= 0 /\ leaves[pause_key] >= 1 /\ observed[pause_key].approved)

\* an allow-listed project id is configured: the setting exists and is not blank
AllowListConfigured ==
  /\ environ.TODOIST_GROCERY_PROJECT_ID # None
  /\ strip(environ.TODOIST_GROCERY_PROJECT_ID) # <<>>

\* C17: validate_project_id returns normally exactly when an allow-listed id
\* is configured and project_id equals it; with a configured allow-list any
\* other text (a different id, an empty or blank one) raises
\* ProjectAccessDenied and None raises TypeError or ProjectAccessDenied;
\* without a configured allow-list every input raises.
Thm_C17 ==
  validation.outcome # "none" =>
    LET allowed == environ.TODOIST_GROCERY_PROJECT_ID
        id      == validation.project_id
    IN  /\ (validation.outcome = "returned") <=> (AllowListConfigured /\ id = allowed)
        /\ (AllowListConfigured /\ id # None /\ id # allowed)
              => validation.outcome = "ProjectAccessDenied"
        /\ (AllowListConfigured /\ id = None)
              => validation.outcome \in {"TypeError", "ProjectAccessDenied"}
        /\ ~AllowListConfigured
              => validation.outcome \in {"ValueError", "TypeError", "ProjectAccessDenied"}

\* a blank setting is given as project_id too: the call raises
Wit_C17 ==
  /\ environ.TODOIST_GROCERY_PROJECT_ID = <<" ">>
  /\ validation.project_id = <<" ">>
  /\ validation.outcome = "ProjectAccessDenied"

\* C18: create_grocery_tasks_from_meal_plan gets past its validation only with
\* the allow-listed id as destination, and the prompt of the agent then names
\* that id; with any other destination it raises (ProjectAccessDenied for an
\* id that differs from the configured allow-listed one) before a connection
\* to the MCP server is opened or an agent run is started.
Thm_C18 ==
  LET allowed == environ.TODOIST_GROCERY_PROJECT_ID
  IN  /\ writer.pc \in {"build", "run", "returned"} \/ writer.mcp_connections > 0
           \/ writer.agent_runs > 0
         => /\ AllowListConfigured
            /\ writer.project_id = allowed
            /\ writer.pc \in {"run", "returned"} => writer.prompt_project_id = allowed
            /\ writer.pc = "returned" => writer.created_tasks[1].project_id = allowed
      /\ (writer.pc \in {"build", "run", "returned", "raised"}
             /\ (~AllowListConfigured \/ writer.project_id # allowed))
         => /\ writer.pc = "raised"
            /\ writer.error \in {"ValueError", "TypeError", "ProjectAccessDenied"}
            /\ writer.mcp_connections = 0
            /\ writer.agent_runs = 0
      /\ (writer.pc \in {"build", "run", "returned", "raised"}
             /\ AllowListConfigured /\ writer.project_id # None
             /\ writer.project_id # allowed)
         => writer.error = "ProjectAccessDenied"

\* the Prefect variable names another project than the allow-listed one
Wit_C18 ==
  /\ AllowListConfigured
  /\ writer.project_id = <<"2">>
  /\ environ.TODOIST_GROCERY_PROJECT_ID = <<"1">>
  /\ writer.pc = "raised"
  /\ writer.error = "ProjectAccessDenied"
  /\ writer.mcp_connections = 0
  /\ writer.agent_runs = 0

\* C19: the list create_grocery_tasks_from_meal_plan returns has one entry per
\* ingredient of the plan, meal ingredients and shared ingredients, and its
\* length is the num_grocery_tasks of the run.
Claim_C19 ==
  writer.pc = "returned" => num_grocery_tasks = writer.plan.meal + writer.plan.shared

\* two texts that differ in letter case only
EqualsIgnoringCase(a, b) ==
  /\ Len(a) = Len(b)
  /\ \A i \in 1..Len(a) : LowerChar(a[i]) = LowerChar(b[i])

\* C20: a text that, once its surrounding whitespace is trimmed, equals an
\* approval token up to letter case is normalized by parse_slack_response to
\* approved = TRUE, feedback = None, regenerate = FALSE.
Thm_C20 ==
  (/\ pollDecision # NoInput
   /\ \E tok \in ApprovalTokens : EqualsIgnoringCase(strip(text), tok))
    => pollDecision = Decision(TRUE, None, FALSE)

\* " \tAPPROVE\n" has been normalized
Wit_C20 ==
  /\ text = <<" ", "\t", "A", "P", "P", "R", "O", "V", "E", "\n">>
  /\ pollDecision = Decision(TRUE, None, FALSE)

\* C21: a text that, once its surrounding whitespace is trimmed, equals a
\* rejection token up to letter case is normalized by parse_slack_response to
\* approved = FALSE, feedback = None, regenerate = FALSE.
Thm_C21 ==
  (/\ pollDecision # NoInput
   /\ \E tok \in RejectionTokens : EqualsIgnoringCase(strip(text), tok))
    => pollDecision = Decision(FALSE, None, FALSE)

\* "\nREJECT \t" has been normalized
Wit_C21 ==
  /\ text = <<"\n", "R", "E", "J", "E", "C", "T", " ", "\t">>
  /\ pollDecision = Decision(FALSE, None, FALSE)

\* the text starts, after its leading whitespace, with "feedback:" in any
\* letter case
HasFeedbackPrefix(t) ==
  /\ Len(strip(t)) >= Len(FeedbackPrefix)
  /\ EqualsIgnoringCase(SubSeq(strip(t), 1, Len(FeedbackPrefix)), FeedbackPrefix)

\* what follows the prefix, surrounding whitespace trimmed
TrailingText(t) == strip(SubSeq(strip(t), Len(FeedbackPrefix) + 1, Len(strip(t))))

\* C22: a text made of the prefix "feedback:" in any letter case and of
\* trailing content is normalized to approved = FALSE, regenerate = TRUE and
\* feedback = the trailing text of the input, surrounding whitespace trimmed.
Claim_C22 ==
  (/\ pollDecision # NoInput
   /\ HasFeedbackPrefix(text)
   /\ TrailingText(text) # <<>>)
    => pollDecision = Decision(FALSE, TrailingText(text), TRUE)

\* the text is an approval token, a rejection token or a "feedback:" pattern
IsRecognized(t) ==
  \/ \E tok \in ApprovalTokens \cup RejectionTokens : EqualsIgnoringCase(strip(t), tok)
  \/ HasFeedbackPrefix(t) /\ TrailingText(t) # <<>>

\* C23: parse_slack_response returns a decision for every text, and for a text
\* that is no approval token, no rejection token and no "feedback:" pattern
\* the decision is approved = FALSE, regenerate = TRUE, feedback = the text
\* as it was given.
Thm_C23 ==
  pollDecision # NoInput =>
    /\ pollDecision.approved \in BOOLEAN
    /\ pollDecision.regenerate \in BOOLEAN
    /\ pollDecision.feedback = None \/ pollDecision.feedback \in Seq(STRING)
    /\ ~IsRecognized(text) => pollDecision = Decision(FALSE, text, TRUE)

\* " I approve\n" has been normalized: it is kept with its case and padding
Wit_C23 ==
  /\ text = <<" ", "I", " ", "a", "p", "p", "r", "o", "v", "e", "\n">>
  /\ pollDecision = Decision(FALSE, text, TRUE)

\* the places of a plan that hold an ingredient: <<m, i>> for ingredient i of
\* meal m, <<0, i>> for shared ingredient i
MealPlaces(plan) ==
  UNION { { <<m, i>> : i \in 1..Len(plan.meals[m].ingredients) } :
          m \in 1..Len(plan.meals) }

SharedPlaces(plan) == { <<0, i>> : i \in 1..Len(plan.shared_ingredients) }

\* the number of ingredients of the meals before meal m
PlacesBefore(plan, m) == Cardinality({ q \in MealPlaces(plan) : q[1] < m })

\* C24: total_tasks, count_total_ingredients and the length of
\* collect_all_ingredients are the number of ingredients of the meals plus
\* the number of shared ingredients, duplicates counted;
\* collect_all_ingredients yields the meals' ingredients in meal order and
\* then the shared ones; the unique names are at most that many; all are 0
\* for the empty plan.
Thm_C24 ==
  ingredients.pc = "done" =>
    LET plan == ingredients.meal_plan
        n    == Cardinality(MealPlaces(plan)) + Cardinality(SharedPlaces(plan))
    IN  /\ ingredients.total_tasks = n
        /\ ingredients.count = n
        /\ Len(ingredients.collected) = n
        /\ \A q \in MealPlaces(plan) :
             ingredients.collected[PlacesBefore(plan, q[1]) + q[2]]
               = plan.meals[q[1]].ingredients[q[2]]
        /\ \A q \in SharedPlaces(plan) :
             ingredients.collected[Cardinality(MealPlaces(plan)) + q[2]]
               = plan.shared_ingredients[q[2]]
        /\ Cardinality(ingredients.unique) <= n
        /\ (plan.meals = <<>> /\ plan.shared_ingredients = <<>>)
             => (n = 0 /\ ingredients.unique = {})

\* two meals and a shared list that repeat an ingredient have been counted
Wit_C24 ==
  /\ ingredients.pc = "done"
  /\ Len(ingredients.meal_plan.meals) = 2
  /\ ingredients.meal_plan.meals[1].ingredients = <<"Tomato", "Salt">>
  /\ ingredients.meal_plan.meals[2].ingredients = <<"Tomato">>
  /\ ingredients.meal_plan.shared_ingredients = <<"Salt", "Salt">>
  /\ ingredients.total_tasks = 5
  /\ Cardinality(ingredients.unique) = 2

\* the text is an approval token or a rejection token
IsToken(t) ==
  \E tok \in ApprovalTokens \cup RejectionTokens : EqualsIgnoringCase(strip(t), tok)

\* C25: when the poll channel delivers a reply that is no approval token and
\* no rejection token in a round with attempts remaining, the flow does not
\* end its loop and the reply's text is the feedback of the next generate
\* call.
Claim_C25 ==
  [][ (/\ pc = "branch"
       /\ pc' = "loop"
       /\ regeneration_count < max_regeneration_attempts
       /\ ~IsToken(threads[message_ts].replies[1]))
      => (/\ approval_received' = FALSE
          /\ feedback_text' = threads[message_ts].replies[1]) ]_vars

\* ceil(t / i) for a positive i, 0 when t <= 0
CeilDiv(t, i) == IF t <= 0 THEN 0 ELSE (t + i - 1) \div i

\* C26: monitor_slack_thread_for_approval performs at most
\* ceil(timeout_seconds / poll_interval_seconds) fetches, one per interval and
\* none when timeout_seconds <= 0, and it ends either by returning the
\* decision of a reply or with its TimeoutError.
Claim_C26 ==
  /\ monitor.fetches <= CeilDiv(monitor.timeout_seconds, monitor.poll_interval_seconds)
  /\ monitor.fetches * monitor.poll_interval_seconds
       <= monitor.elapsed_time + monitor.poll_interval_seconds
  /\ monitor.pc = "ended" => monitor.outcome \in {"returned", "TimeoutError"}

\* the terminal condition for decision d observed with regeneration count n
\* (the count after d was branched on): approved, or feedback received with
\* the count above max_regeneration_attempts, or a rejection without
\* feedback (feedback None or empty)
Terminal(d, n) ==
  \/ d.approved
  \/ d.regenerate /\ Truthy(d.feedback) /\ n > max_regeneration_attempts
  \/ ~d.approved /\ ~Truthy(d.feedback)

\* C27: the regeneration count stays within 0..max_regeneration_attempts + 1,
\* at most max_regeneration_attempts + 1 generate calls are made, one per
\* round, and the loop is left exactly when the terminal condition holds for
\* the last decision observed.
Thm_C27 ==
  /\ regeneration_count \in 0..(max_regeneration_attempts + 1)
  /\ Len(generateCalls) <= max_regeneration_attempts + 1
  /\ Len(generateCalls) <= regeneration_count + 1
  /\ LoopExited =>
       /\ pause_key >= 0
       /\ leaves[pause_key] = 1
       /\ Terminal(observed[pause_key], regeneration_count)
  /\ (pc = "loop" /\ pause_key >= 0) =>
       (Terminal(observed[pause_key], regeneration_count)
          <=> (approval_received \/ regeneration_count > LoopLimit))
  /\ pc \in {"post_to_slack", "run_deployment", "pause", "paused"}
       => \A k \in 0..(regeneration_count - 1) :
            ~Terminal(observed[k], k + 1)

\* the run ended after max_regeneration_attempts + 1 rounds with the count
\* above max_regeneration_attempts
Wit_C27 ==
  /\ pc = "done"
  /\ regeneration_count = max_regeneration_attempts + 1
  /\ Len(generateCalls) = max_regeneration_attempts + 1
  /\ ~approval_input.approved

\* the decisions parse_slack_response has returned: the one of the normalized
\* text and the ones the polling flow runs hold for resume_prefect_flow
ParsedDecisions ==
  { d \in {pollDecision} \cup { poller[k].approval_input : k \in Rounds } :
      d # NoInput }

\* C28: every decision parse_slack_response returns, and so every decision a
\* polling flow run hands to resume_prefect_flow, has regenerate = TRUE
\* exactly when its feedback is not None, and is never approved with
\* regenerate.
Thm_C28 ==
  \A d \in ParsedDecisions :
    /\ d.regenerate <=> (d.feedback # None)
    /\ ~(d.approved /\ d.regenerate)

\* a "feedback:" reply has been parsed into a regeneration with its feedback
Wit_C28 ==
  /\ HasFeedbackPrefix(text)
  /\ pollDecision # NoInput
  /\ pollDecision.regenerate
  /\ pollDecision.feedback # None
  /\ pollDecision.feedback # text

\* the plan returned by the most recent generate call of the run
LatestPlan == Len(generateCalls)

\* C29: once the loop is left the final plan is the plan of the most recent
\* generate call, and the plans handed to the task-list writer, to the final
\* notifier and to the grocery-list post are that plan; the plan bound to
\* meal_plan is never one of an earlier round.
Thm_C29 ==
  /\ meal_plan = LatestPlan
  /\ LoopExited => meal_plan >= 1
  /\ \A i \in 1..Len(tasksCreated) : tasksCreated[i] = LatestPlan
  /\ \A i \in 1..Len(finalPosted) : finalPosted[i].plan = LatestPlan
  /\ \A i \in 1..Len(groceryPosted) : groceryPosted[i] = LatestPlan
  /\ Len(groceryPosted) <= 1
  /\ groceryPosted # <<>> => (pc = "done" /\ finalPosted # <<>>)

\* the run ended after a regeneration: the plan of the second generate call
\* went to the writer, to the notifier and to the grocery-list post
Wit_C29 ==
  /\ pc = "done"
  /\ Len(generateCalls) = 2
  /\ tasksCreated = <<2>>
  /\ finalPosted # <<>> /\ finalPosted[1].plan = 2
  /\ groceryPosted = <<2>>

\* the polling flow of round k has ended in the `except Exception` handler
\* after its resume call raised
ResumeRaised(k) ==
  /\ poller[k].pc = "done"
  /\ poller[k].result = "raised"
  /\ poller[k].approval_input # NoInput

\* C30: a resume call that raises ends its polling flow without a second
\* call: the step changes no gate and reports no success, the polling flow
\* takes no step afterwards, and the flow suspended in the pause of that
\* round leaves it only by a resume of the push channel or by the timeout of
\* the pause.
Claim_C30 ==
  [][\A k \in Rounds :
       /\ (poller[k].pc = "resume" /\ poller'[k].result = "raised") =>
            /\ poller'[k].pc = "done"
            /\ UNCHANGED <<flowVars, gateVars, successReports>>
       /\ ResumeRaised(k) => poller'[k] = poller[k]
       /\ (ResumeRaised(k) /\ pc = "paused" /\ pause_key = k /\ gate[k] = "Pending") =>
            \/ gate'[k] = "Pending" /\ pc' = "paused"
            \/ gate'[k] = "Expired" /\ pc' = "failed"
            \/ /\ gate'[k] = "Resolved"
               /\ resolver'[k][Len(resolver'[k])].ch = "push"]_vars

====
